---- MODULE Spec2Model ----
(***************************************************************************)
(* Idle sandbox watcher (scripts/inactivity_watcher.py).                   *)
(*                                                                         *)
(* One invocation of main() is modelled as a process whose position is pc: *)
(*   idle -> loaded -> ingested -> eval -> evaluated -> tmp_written -> idle *)
(* The environment (wall clock, nginx access log, container runtime, TCP   *)
(* connections) moves between the steps of the process.  Spec is the host  *)
(* with sandboxes coming and going and a log that is only appended to;     *)
(* SpecTail is the host whose log is rotated, truncated or removed and     *)
(* whose runs may die at any step; SpecFault is the host whose state file  *)
(* was left by someone else, whose docker client may be absent and whose   *)
(* lifecycle tool and file system may fail; SpecCalls applies single       *)
(* functions of the script to arguments drawn from bounded sets.           *)
(*                                                                         *)
(* Conventions.  Epoch seconds are integers >= 1; the value 0 stands for   *)
(* Python's None / a missing dictionary key (the code itself treats 0 and  *)
(* None alike through `x or y` and `.get(name, 0)`).  A log file is a      *)
(* sequence of lines and a byte offset is the number of lines before it    *)
(* (nginx writes whole lines).  A request path is its sequence of tokens,  *)
(* "/" being the separator.  A JSON object is the set of its members       *)
(* <<key, value>>; a Python dict is a function that is 0 outside its keys, *)
(* the in-memory ledger also records which top-level keys it has.          *)
(***************************************************************************)
EXTENDS Integers, Sequences, FiniteSets, TLC

\* ------------------------------------------------------------------ bounds
MaxTime == 2
MaxLines == 2
MaxInode == 2
MaxPath == 3

\* ------------------------------------------------------- program constants
Threshold == 1

Names == {"foo", "bar"}
PsOrder == <<"bar", "foo">>
PortKeys == <<"port", "vnc_port", "mcphub_port", "filesvc_port">>
Ports == {6081}
Times == 0..MaxTime

\* Registry file: a port field is a positive number p when its text is the
\* digits of p, 0 when the field is absent or falsy, -p when it is text that
\* mentions p without being a digit string ("6081/tcp"), -1 when it is text
\* that mentions no port.
RegistryFile ==
  [n \in Names |->
     IF n = "foo"
     THEN [port |-> 6080, vnc_port |-> 6081, mcphub_port |-> -1, filesvc_port |-> 0]
     ELSE [port |-> 0, vnc_port |-> 0, mcphub_port |-> 0, filesvc_port |-> 0]]

\* what registry.get(name, {}) gives for a name the registry lacks
NoPorts == [port |-> 0, vnc_port |-> 0, mcphub_port |-> 0, filesvc_port |-> 0]
NoRegistry == [n \in Names |-> NoPorts]

\* the registry file the manager installs
InstalledRegistry == [kind |-> "list", data |-> RegistryFile]

\* registry files a host can hold: none, one that cannot be opened or
\* parsed, one whose JSON is not a list, the installed one, one whose port
\* fields for foo are text, and one that has no item for foo
RegistryFiles ==
  { [kind |-> "missing", data |-> NoRegistry],
    [kind |-> "unreadable", data |-> RegistryFile],
    [kind |-> "notlist", data |-> RegistryFile],
    InstalledRegistry,
    [kind |-> "list",
     data |-> [RegistryFile EXCEPT !["foo"] =
                 [port |-> 0, vnc_port |-> -6081, mcphub_port |-> -1,
                  filesvc_port |-> 0]]],
    [kind |-> "list", data |-> NoRegistry] }

LinePaths ==
  { <<"/", "foo", "/", "status">> }

\* ----------------------------------------------------------------- helpers
Max2(a, b) == IF a >= b THEN a ELSE b
Max3(a, b, c) == Max2(a, Max2(b, c))
\* Python's `a or b` on an optional number
OrElse(a, b) == IF a # 0 THEN a ELSE b

NoneByName == [n \in Names |-> 0]
NoLog == [inode |-> 0, pos |-> 0]
TopKeys == {"log", "containers", "running_since", "stop_history"}
Fresh ==
  [keys |-> TopKeys, log |-> NoLog, containers |-> NoneByName,
   running_since |-> NoneByName, stop_history |-> NoneByName]

\* ------------------------------------------------------------- JSON
\* the members of a dict: one <<key, value>> per key it holds
Members(map) == { <<f, map[f]>> : f \in { g \in DOMAIN map : map[g] # 0 } }

\* json.dump of a ledger: the text of an object with one member per top-level key
json_dump(st) == { <<k, Members(st[k])>> : k \in st.keys }

\* the value of member k of an object, 0 when there is none
Value(ms, k) ==
  IF \E m \in ms : m[1] = k THEN (CHOOSE m \in ms : m[1] = k)[2] ELSE 0

\* the object under top-level key k, empty when there is none
Object(text, k) ==
  IF \E m \in text : m[1] = k THEN (CHOOSE m \in text : m[1] = k)[2] ELSE {}

\* json.load of an object text as a ledger
json_load(text) ==
  [keys |-> { m[1] : m \in text },
   log |-> [f \in {"inode", "pos"} |-> Value(Object(text, "log"), f)],
   containers |-> [n \in Names |-> Value(Object(text, "containers"), n)],
   running_since |-> [n \in Names |-> Value(Object(text, "running_since"), n)],
   stop_history |-> [n \in Names |-> Value(Object(text, "stop_history"), n)]]

\* files: absent, unparsable (cut short or garbage), valid JSON that is no
\* object (a list, a number, null), or the text of an object
Missing == [kind |-> "missing", data |-> {}]
Partial == [kind |-> "partial", data |-> {}]
NonObject == [kind |-> "nonobject", data |-> {}]
Full(st) == [kind |-> "full", data |-> json_dump(st)]

VARIABLES
  clock,        \* wall clock of the host
  logFile,      \* nginx access log: [exists, inode, lines]
  seen,         \* per line of logFile: how often a pass has yielded it (capped at 2)
  docker,       \* container runtime: name -> [running, keyed, created, started]
  estab,        \* local ports with an ESTABLISHED connection
  disk,         \* file at STATE_PATH
  tmp,          \* file at STATE_PATH with suffix .tmp
  pc,           \* position of the invocation
  state,        \* in-memory ledger of the invocation
  now,          \* time.time() taken by main
  names,        \* output of list_managed_container_names
  idx,          \* loop index into names
  active_ports, \* result of collect_active_ports
  decision,     \* per name: what the evaluator did in this run
  inact,        \* per name: inactivity computed in this run
  yielded,      \* lines yielded by iter_new_log_lines in this run
  tail,         \* branch iter_new_log_lines took in this run
  clean,        \* so far the log was only appended to and no run died
  outcome,      \* how the last invocation of main ended
  docker_bin,   \* shutil.which("docker") finds the client
  call          \* a single function applied to drawn arguments: [fn, arg, ret, done]

vars == <<clock, logFile, seen, docker, estab, disk, tmp, pc, state, now,
          names, idx, active_ports, decision, inact, yielded, tail, clean,
          outcome, docker_bin, call>>

envVars == <<clock, logFile, seen, docker, estab, clean>>
fileVars == <<disk, tmp>>
evalVars == <<now, names, idx, active_ports, decision, inact>>
tailVars == <<yielded, tail>>
hostVars == <<docker_bin, call>>

NoDecision == [n \in Names |-> "none"]
NoInact == [n \in Names |-> 0]
NoCall == [fn |-> "none", arg |-> <<>>, ret |-> <<>>, done |-> FALSE]

\* ------------------------------------------------------------- ActivityStateStore
\* slip: only json.JSONDecodeError is caught
load_state_NarrowExcept(file) ==
  IF file.kind = "missing" THEN [raised |-> FALSE, st |-> Fresh]
  ELSE IF file.kind = "partial" THEN [raised |-> FALSE, st |-> Fresh]
  ELSE IF file.kind = "nonobject" THEN [raised |-> TRUE, st |-> Fresh]
  ELSE [raised |-> FALSE,
        st |-> [json_load(file.data) EXCEPT !.keys = @ \cup TopKeys]]

\* slip: stop_history is left out of the setdefault loop
load_state_NoStopHistory(file) ==
  IF file.kind = "missing" THEN [raised |-> FALSE, st |-> Fresh]
  ELSE IF file.kind = "partial" THEN [raised |-> FALSE, st |-> Fresh]
  ELSE IF file.kind = "nonobject" THEN [raised |-> FALSE, st |-> Fresh]
  ELSE [raised |-> FALSE,
        st |-> [json_load(file.data) EXCEPT
                  !.keys = @ \cup {"containers", "running_since", "log"}]]

\* load_state: whether it raised, and the ledger it returned.  A missing
\* file gives the fresh ledger; json.load raising on an unparsable text and
\* setdefault raising on a value that is no dict are caught by
\* `except Exception` and give the fresh ledger; an object gets the
\* top-level keys it lacks.
load_state(file) ==
  IF file.kind = "missing" THEN [raised |-> FALSE, st |-> Fresh]
  ELSE IF file.kind = "partial" THEN [raised |-> FALSE, st |-> Fresh]
  ELSE IF file.kind = "nonobject" THEN [raised |-> FALSE, st |-> Fresh]
  ELSE [raised |-> FALSE,
        st |-> [json_load(file.data) EXCEPT !.keys = @ \cup TopKeys]]

\* save_state works on the two paths [disk, tmp].
\* slip: the state file itself is opened for writing
save_open_InPlace(files) == [files EXCEPT !.disk = Partial]

\* tmp_path.open("w"): the temporary file exists and is empty
save_open(files) == [files EXCEPT !.tmp = Partial]

\* slip: only the containers map is dumped
save_dump_ContainersOnly(files, st) ==
  [files EXCEPT !.tmp = Full([st EXCEPT !.keys = {"containers"}])]

\* json.dump(state, fh) and leaving the with block
save_dump(files, st) == [files EXCEPT !.tmp = Full(st)]

\* tmp_path.replace(state_path)
save_replace(files) == [disk |-> files.tmp, tmp |-> Missing]

\* save_state from its first to its last line
save_state(files, st) == save_replace(save_dump(save_open(files), st))

\* save_state raising at `stage`: what it leaves at the two paths
save_state_raising(files, st, stage) ==
  IF stage = "open" THEN files
  ELSE IF stage = "write" THEN save_open(files)
  ELSE save_dump(save_open(files), st)

\* ------------------------------------------------------------- ActivityExtractor
\* extract_container_from_path; "" is None
extract_container_from_path(path) ==
  IF Len(path) = 0 \/ path[1] # "/" THEN ""
  ELSE IF Len(path) < 2 THEN ""
  ELSE IF path[2] = "/" THEN ""
  ELSE IF path[2] \in {"manager", "mcphub"} THEN ""
  ELSE path[2]

\* slip: the `epoch > previous` test is left out
ApplyLine_Unguarded(containers, line) ==
  LET name == extract_container_from_path(line.path) IN
  IF line.ts = 0 THEN containers
  ELSE IF line.path = <<>> THEN containers
  ELSE IF name = "" THEN containers
  ELSE [containers EXCEPT ![name] = line.ts]

\* slip: a value is only recorded for a name that has none
ApplyLine_FirstWins(containers, line) ==
  LET name == extract_container_from_path(line.path) IN
  IF line.ts = 0 THEN containers
  ELSE IF line.path = <<>> THEN containers
  ELSE IF name = "" THEN containers
  ELSE IF containers[name] = 0
       THEN [containers EXCEPT ![name] = line.ts]
       ELSE containers

\* body of the loop of update_activity_from_logs for one line; ts = 0 is a
\* line without a parsable timestamp, path = <<>> one without a request token
ApplyLine(containers, line) ==
  LET name == extract_container_from_path(line.path) IN
  IF line.ts = 0 THEN containers
  ELSE IF line.path = <<>> THEN containers
  ELSE IF name = "" THEN containers
  ELSE IF line.ts > containers[name]
       THEN [containers EXCEPT ![name] = line.ts]
       ELSE containers

RECURSIVE ApplyLines(_, _)
ApplyLines(containers, lines) ==
  IF lines = <<>> THEN containers
  ELSE ApplyLines(ApplyLine(containers, Head(lines)), Tail(lines))

\* ------------------------------------------------------------- LogTailer
\* slip: the `pos <= st_size` test is left out
StartOffset_NoSizeTest(log, file) ==
  IF log.inode = file.inode THEN log.pos ELSE 0

\* slip: the seek is left out, every pass reads from the start
StartOffset_NeverSeek(log, file) == 0

\* the seek decision of iter_new_log_lines: the offset reading starts at
StartOffset(log, file) ==
  IF log.inode = file.inode /\ log.pos <= Len(file.lines)
  THEN log.pos
  ELSE 0

\* slip: the number of bytes read in this pass is stored
TellAtEnd_Delta(start, file) == Len(file.lines) - start

\* handle.tell() once the loop over the handle has reached the end of file
TellAtEnd(start, file) == Len(file.lines)

\* slip: a missing file clears the watermark
iter_new_log_lines_Clearing(log, file) ==
  IF ~file.exists THEN [lines |-> <<>>, log |-> NoLog, from |-> -1]
  ELSE LET start == StartOffset(log, file) IN
       [lines |-> SubSeq(file.lines, start + 1, Len(file.lines)),
        log |-> [inode |-> file.inode, pos |-> TellAtEnd(start, file)],
        from |-> start]

\* iter_new_log_lines: the lines yielded, the watermark afterwards and the
\* offset reading started at (-1 when the file was not opened)
iter_new_log_lines(log, file) ==
  IF ~file.exists THEN [lines |-> <<>>, log |-> log, from |-> -1]
  ELSE LET start == StartOffset(log, file) IN
       [lines |-> SubSeq(file.lines, start + 1, Len(file.lines)),
        log |-> [inode |-> file.inode, pos |-> TellAtEnd(start, file)],
        from |-> start]

\* the line reaches `state.setdefault("containers", {})`
Attributed(line) ==
  /\ line.ts # 0
  /\ line.path # <<>>
  /\ extract_container_from_path(line.path) # ""

\* update_activity_from_logs
update_activity_from_logs(st, file) ==
  LET it == iter_new_log_lines(st.log, file) IN
  [st EXCEPT !.log = it.log,
             !.containers = ApplyLines(@, it.lines),
             !.keys = @ \cup (IF file.exists THEN {"log"} ELSE {})
                        \cup (IF \E i \in 1..Len(it.lines) : Attributed(it.lines[i])
                              THEN {"containers"} ELSE {})]

\* ------------------------------------------------------------- SandboxInspector
NoRecord == [ok |-> FALSE, created_at |-> 0, started_at |-> 0]

\* slip: State.Running is not looked at
collect_container_record_NoRunningTest(info, inspectOK) ==
  IF ~inspectOK THEN NoRecord
  ELSE IF ~info.keyed THEN NoRecord
  ELSE [ok |-> TRUE,
        created_at |-> OrElse(info.created, OrElse(info.started, 0)),
        started_at |-> info.started]

\* collect_container_record on the runtime's answer for one name
collect_container_record(info, inspectOK) ==
  IF ~inspectOK THEN NoRecord
  ELSE IF ~info.running THEN NoRecord
  ELSE IF ~info.keyed THEN NoRecord
  ELSE [ok |-> TRUE,
        created_at |-> OrElse(info.created, OrElse(info.started, 0)),
        started_at |-> info.started]

\* list_managed_container_names: docker ps, empty when the call fails
list_managed_container_names(dk, psOK) ==
  IF psOK THEN SelectSeq(PsOrder, LAMBDA n : dk[n].running) ELSE <<>>

\* load_registry: name -> item; {} when the file is missing, cannot be
\* opened or parsed, or does not hold a list
load_registry(file) ==
  IF file.kind = "missing" THEN NoRegistry
  ELSE IF file.kind = "unreadable" THEN NoRegistry
  ELSE IF file.kind = "notlist" THEN NoRegistry
  ELSE file.data

\* how `ss -tan` can answer when it is run (check=True, timeout=5)
SsRuns == {"zero", "nonzero", "timeout"}

\* collect_active_ports: the local ports of the ESTAB lines; {} when ss is
\* not installed or its run raises
collect_active_ports(found, run, conns) ==
  IF ~found THEN {}
  ELSE IF run = "nonzero" THEN {}
  ELSE IF run = "timeout" THEN {}
  ELSE conns

\* what collect_active_ports can return while the connections are conns
PortAnswers(conns) ==
  { collect_active_ports(f, r, conns) : f \in BOOLEAN, r \in SsRuns }

\* ------------------------------------------------------------- IdlenessEvaluator
\* slip: the digits are picked out of the field instead of testing isdigit()
CandidatePorts_Lenient(entry) ==
  { IF entry[PortKeys[i]] > 0 THEN entry[PortKeys[i]] ELSE 0 - entry[PortKeys[i]] :
      i \in { j \in 1..Len(PortKeys) : entry[PortKeys[j]] \notin {0, -1} } }

\* candidate_ports of a registry entry
CandidatePorts(entry) ==
  { entry[PortKeys[i]] : i \in { j \in 1..Len(PortKeys) : entry[PortKeys[j]] > 0 } }

\* slip: all() in place of any()
IsActive_All(cands, ports) == \A p \in cands : p \in ports

\* any(active_ports.get(port) for port in candidate_ports)
IsActive(cands, ports) == \E p \in cands : p \in ports

\* slip: the recorded running_since is left out of the maximum
ActiveEffect_NoPrevious(st, n, snap, t) ==
  [st EXCEPT
     !.running_since[n] =
        Max2(OrElse(snap.started_at, t), OrElse(snap.created_at, 0)),
     !.containers[n] = t]

\* the active-connection branch: running_since and containers of n
ActiveEffect(st, n, snap, t) ==
  [st EXCEPT
     !.running_since[n] =
        Max3(OrElse(snap.started_at, t), @, OrElse(snap.created_at, 0)),
     !.containers[n] = t]

\* slip: without a start time from the runtime, now is taken at once
StartedAt_NoRecorded(snapStarted, prevRunning, t) ==
  IF snapStarted # 0 THEN snapStarted ELSE t

\* started_at with its two fallbacks
StartedAt(snapStarted, prevRunning, t) ==
  IF snapStarted # 0 THEN snapStarted
  ELSE IF prevRunning # 0 THEN prevRunning
  ELSE t

\* slip: started_at is recorded without the comparison
AdvanceRunning_Always(prevRunning, started_at) == started_at

\* running_since[n] after `if started_at > prev_started`
AdvanceRunning(prevRunning, started_at) ==
  IF started_at > prevRunning THEN started_at ELSE prevRunning

\* slip: the recorded HTTP activity is left out of the maximum
LastSeen_NoHttp(running, http, created_at, t) ==
  OrElse(Max2(running, OrElse(created_at, 0)), t)

\* slip: created_at is left out of the maximum
LastSeen_NoCreated(running, http, created_at, t) ==
  OrElse(Max2(running, http), t)

\* last_seen = max(running_since, containers, created_at) or now
LastSeen(running, http, created_at, t) ==
  OrElse(Max3(running, http, OrElse(created_at, 0)), t)

\* slip: <= in place of <
Keeps_Le(inactivity) == inactivity <= Threshold

\* `if inactivity < THRESHOLD_SECONDS: continue`
Keeps(inactivity) == inactivity < Threshold

\* slip: the stop time is not written to containers
StopEffect_PopOnly(st, n, t) ==
  [st EXCEPT !.running_since[n] = 0]

\* what the evaluator writes after stop_container returned True
StopEffect(st, n, t) ==
  [st EXCEPT !.running_since[n] = 0, !.containers[n] = t]

\* how the lifecycle tool can answer when it is run
StopRuns == {"zero", "nonzero", "timeout"}

\* stop_container: "true", "false", or "raise" when the exception leaves it.
\* A missing script, a timeout (subprocess.SubprocessError) and a non-zero
\* exit give False; an OSError of subprocess.run (script not executable,
\* interpreter missing, script removed after the exists() test) is not a
\* SubprocessError and is not caught.
stop_container(scriptExists, run) ==
  IF ~scriptExists THEN "false"
  ELSE IF run = "oserror" THEN "raise"
  ELSE IF run = "timeout" THEN "false"
  ELSE IF run = "nonzero" THEN "false"
  ELSE "true"

\* what stop_container returns with the script present or not and the tool
\* answering in one of the ways of StopRuns
StopAnswers == { stop_container(e, r) : e \in BOOLEAN, r \in StopRuns }

\* slip: the ledger is stamped whatever stop_container returned
EvalOne_StampOnFailure(st, n, snap, reg, ports, t, stopOK) ==
  IF ~snap.ok
  THEN [st |-> [st EXCEPT !.running_since[n] = 0],
        decision |-> "skip", inact |-> 0]
  ELSE IF IsActive(CandidatePorts(reg[n]), ports)
  THEN [st |-> ActiveEffect(st, n, snap, t),
        decision |-> "active", inact |-> 0]
  ELSE
    LET started_at == StartedAt(snap.started_at, st.running_since[n], t)
        kept == [st EXCEPT !.running_since[n] = AdvanceRunning(@, started_at)]
        last_seen == LastSeen(kept.running_since[n], kept.containers[n],
                              snap.created_at, t)
        inactivity == t - last_seen
    IN IF Keeps(inactivity)
       THEN [st |-> kept, decision |-> "keep", inact |-> inactivity]
       ELSE IF stopOK
       THEN [st |-> StopEffect(kept, n, t),
             decision |-> "stop_ok", inact |-> inactivity]
       ELSE [st |-> StopEffect(kept, n, t),
             decision |-> "stop_fail", inact |-> inactivity]

\* one iteration of the loop of evaluate_and_stop_idle
EvalOne(st, n, snap, reg, ports, t, stopOK) ==
  IF ~snap.ok
  THEN [st |-> [st EXCEPT !.running_since[n] = 0],
        decision |-> "skip", inact |-> 0]
  ELSE IF IsActive(CandidatePorts(reg[n]), ports)
  THEN [st |-> ActiveEffect(st, n, snap, t),
        decision |-> "active", inact |-> 0]
  ELSE
    LET started_at == StartedAt(snap.started_at, st.running_since[n], t)
        kept == [st EXCEPT !.running_since[n] = AdvanceRunning(@, started_at)]
        last_seen == LastSeen(kept.running_since[n], kept.containers[n],
                              snap.created_at, t)
        inactivity == t - last_seen
    IN IF Keeps(inactivity)
       THEN [st |-> kept, decision |-> "keep", inact |-> inactivity]
       ELSE IF stopOK
       THEN [st |-> StopEffect(kept, n, t),
             decision |-> "stop_ok", inact |-> inactivity]
       ELSE [st |-> kept, decision |-> "stop_fail", inact |-> inactivity]

\* the two setdefault calls evaluate_and_stop_idle starts with
EvalEntry(st) == [st EXCEPT !.keys = @ \cup {"containers", "running_since"}]

\* the loop of evaluate_and_stop_idle from position i of the listed names
RECURSIVE EvalFrom(_, _, _, _, _, _, _, _, _)
EvalFrom(acc, listed, i, t, dk, reg, ports, inspectOK, stopOK) ==
  IF i > Len(listed) THEN acc
  ELSE LET n == listed[i]
           r == EvalOne(acc.st, n, collect_container_record(dk[n], inspectOK),
                        reg, ports, t, stopOK)
       IN EvalFrom([st |-> r.st, decision |-> [acc.decision EXCEPT ![n] = r.decision]],
                   listed, i + 1, t, dk, reg, ports, inspectOK, stopOK)

\* evaluate_and_stop_idle(state, now) against a runtime that stays as it is,
\* with the registry and the active ports it read at its start: the ledger
\* afterwards and what was decided for each name
evaluate_and_stop_idle(st, t, dk, reg, ports, inspectOK, stopOK) ==
  EvalFrom([st |-> EvalEntry(st), decision |-> [n \in Names |-> "none"]],
           list_managed_container_names(dk, TRUE), 1, t, dk, reg, ports,
           inspectOK, stopOK)

\* ------------------------------------------------------------- main
\* slip: the docker client is not looked for
main_entry_NoCheck(found) == "load"

\* main: `if shutil.which("docker") is None: ... return 0`
main_entry(found) == IF found THEN "load" ELSE "return0"

\* slip: save_state is wrapped in a handler that logs and returns 0
main_exit_Swallow(saveRaised) == "saved"

\* main: save_state(STATE_PATH, state) has no handler around it; return 0
main_exit(saveRaised) == IF saveRaised THEN "raised" ELSE "saved"

\* ------------------------------------------------------------- initial state
AtRest ==
  /\ pc = "idle"
  /\ state = Fresh
  /\ now = 0
  /\ names = <<>>
  /\ idx = 1
  /\ active_ports = {}
  /\ decision = NoDecision
  /\ inact = NoInact
  /\ yielded = <<>>
  /\ tail = "none"
  /\ outcome = "none"

Init ==
  /\ clock = 1
  /\ logFile = [exists |-> TRUE, inode |-> 1, lines |-> <<>>]
  /\ seen = <<>>
  /\ docker = [n \in Names |->
                 [running |-> FALSE, keyed |-> (n = "foo"),
                  created |-> 1, started |-> 0]]
  /\ estab = {}
  /\ disk = Missing
  /\ tmp = Missing
  /\ pc = "idle"
  /\ state = Fresh
  /\ now = 0
  /\ names = <<>>
  /\ idx = 1
  /\ active_ports = {}
  /\ decision = NoDecision
  /\ inact = NoInact
  /\ yielded = <<>>
  /\ tail = "none"
  /\ clean = TRUE
  /\ outcome = "none"
  /\ docker_bin = TRUE
  /\ call = NoCall

\* ------------------------------------------------------------- environment
Tick ==
  /\ clock < MaxTime
  /\ clock' = clock + 1
  /\ UNCHANGED <<logFile, seen, docker, estab, clean, fileVars, pc, state, evalVars, tailVars, outcome, hostVars>>

\* nginx appends a line stamped with the current time
AppendLine ==
  /\ logFile.exists
  /\ Len(logFile.lines) < MaxLines
  /\ \E p \in LinePaths :
       logFile' = [logFile EXCEPT !.lines = Append(@, [ts |-> clock, path |-> p])]
  /\ seen' = Append(seen, 0)
  /\ UNCHANGED <<clock, docker, estab, clean, fileVars, pc, state, evalVars, tailVars, outcome, hostVars>>

\* logrotate moves the file away and a new, empty file appears at the path
RotateLog ==
  /\ \E i \in 1..MaxInode :
       /\ (logFile.exists => i # logFile.inode)
       /\ logFile' = [exists |-> TRUE, inode |-> i, lines |-> <<>>]
  /\ clean' = FALSE
  /\ seen' = <<>>
  /\ UNCHANGED <<clock, docker, estab, fileVars, pc, state, evalVars, tailVars, outcome, hostVars>>

\* the file is truncated in place (copytruncate)
TruncateLog ==
  /\ logFile.exists
  /\ logFile.lines # <<>>
  /\ logFile' = [logFile EXCEPT !.lines = <<>>]
  /\ clean' = FALSE
  /\ seen' = <<>>
  /\ UNCHANGED <<clock, docker, estab, fileVars, pc, state, evalVars, tailVars, outcome, hostVars>>

RemoveLog ==
  /\ logFile.exists
  /\ logFile' = [exists |-> FALSE, inode |-> 0, lines |-> <<>>]
  /\ clean' = FALSE
  /\ seen' = <<>>
  /\ UNCHANGED <<clock, docker, estab, fileVars, pc, state, evalVars, tailVars, outcome, hostVars>>

\* the management API starts a sandbox; StartedAt may be unparsable (0)
DockerStart ==
  /\ \E n \in Names, s \in {0, clock} :
       /\ ~docker[n].running
       /\ docker' = [docker EXCEPT ![n].running = TRUE,
                                   ![n].started = IF docker[n].keyed THEN s ELSE 0]
  /\ UNCHANGED <<clock, logFile, seen, estab, clean, fileVars, pc, state, evalVars, tailVars, outcome, hostVars>>

\* a sandbox is stopped outside the watcher
DockerStop ==
  /\ \E n \in Names :
       /\ docker[n].running
       /\ docker' = [docker EXCEPT ![n].running = FALSE]
  /\ UNCHANGED <<clock, logFile, seen, estab, clean, fileVars, pc, state, evalVars, tailVars, outcome, hostVars>>

ConnChange ==
  /\ \E s \in SUBSET Ports :
       /\ s # estab
       /\ estab' = s
  /\ UNCHANGED <<clock, logFile, seen, docker, clean, fileVars, pc, state, evalVars, tailVars, outcome, hostVars>>

\* ------------------------------------------------------------- the invocation
ResetLocals ==
  /\ state' = Fresh
  /\ now' = 0
  /\ names' = <<>>
  /\ idx' = 1
  /\ active_ports' = {}
  /\ decision' = NoDecision
  /\ inact' = NoInact
  /\ yielded' = <<>>
  /\ tail' = "none"

\* main without a docker client: the warning and `return 0`
SkipRun ==
  /\ pc = "idle"
  /\ main_entry(docker_bin) = "return0"
  /\ outcome' = "skipped"
  /\ UNCHANGED <<envVars, fileVars, pc, state, evalVars, tailVars, hostVars>>

\* main: state = load_state(STATE_PATH)
Load ==
  /\ pc = "idle"
  /\ main_entry(docker_bin) = "load"
  /\ LET r == load_state(disk) IN
       IF r.raised
       THEN /\ outcome' = "raised"
            /\ UNCHANGED <<pc, state>>
       ELSE /\ outcome' = "running"
            /\ pc' = "loaded"
            /\ state' = r.st
  /\ UNCHANGED <<envVars, fileVars, evalVars, tailVars, hostVars>>

\* main: update_activity_from_logs(state)
Ingest ==
  /\ pc = "loaded"
  /\ LET it == iter_new_log_lines(state.log, logFile) IN
       /\ state' = update_activity_from_logs(state, logFile)
       /\ yielded' = it.lines
       /\ tail' = IF it.from < 0 THEN "missing"
                  ELSE IF state.log.inode = 0 THEN "first"
                  ELSE IF state.log.inode = logFile.inode
                          /\ state.log.pos <= Len(logFile.lines) THEN "resume"
                  ELSE "restart"
       /\ seen' = [i \in 1..Len(seen) |->
                     IF it.from >= 0 /\ i > it.from
                     THEN (IF seen[i] = 0 THEN 1 ELSE 2)
                     ELSE seen[i]]
  /\ pc' = "ingested"
  /\ UNCHANGED <<clock, logFile, docker, estab, clean, fileVars, evalVars, outcome, hostVars>>

\* main: now = time.time(); evaluate_and_stop_idle up to the head of its loop
BeginEval ==
  /\ pc = "ingested"
  /\ now' = clock
  /\ \E ports \in PortAnswers(estab), psOK \in BOOLEAN :
       /\ active_ports' = ports
       /\ names' = list_managed_container_names(docker, psOK)
  /\ idx' = 1
  /\ yielded' = <<>>
  /\ state' = EvalEntry(state)
  /\ pc' = IF names' = <<>> THEN "evaluated" ELSE "eval"
  /\ UNCHANGED <<envVars, fileVars, decision, inact, tail, outcome, hostVars>>

\* one iteration of the loop of evaluate_and_stop_idle
EvalStep ==
  /\ pc = "eval"
  /\ \E inspectOK \in BOOLEAN, answer \in StopAnswers :
       LET n == names[idx]
           snap == collect_container_record(docker[n], inspectOK)
           r == EvalOne(state, n, snap, load_registry(InstalledRegistry),
                        active_ports, now, answer = "true")
       IN /\ state' = r.st
          /\ decision' = [decision EXCEPT ![n] = r.decision]
          /\ inact' = [inact EXCEPT ![n] = r.inact]
          /\ docker' = IF r.decision = "stop_ok"
                       THEN [docker EXCEPT ![n].running = FALSE]
                       ELSE docker
  /\ idx' = idx + 1
  /\ pc' = IF idx = Len(names) THEN "evaluated" ELSE "eval"
  /\ UNCHANGED <<clock, logFile, seen, estab, clean, fileVars, now, names, active_ports, tailVars, outcome, hostVars>>

\* the iteration in which subprocess.run raises an OSError inside
\* stop_container: the exception leaves evaluate_and_stop_idle and main
EvalStepRaise ==
  /\ pc = "eval"
  /\ \E inspectOK \in BOOLEAN :
       LET n == names[idx]
           snap == collect_container_record(docker[n], inspectOK)
           r == EvalOne(state, n, snap, load_registry(InstalledRegistry),
                        active_ports, now, FALSE)
       IN /\ r.decision = "stop_fail"
          /\ stop_container(TRUE, "oserror") = "raise"
  /\ pc' = "idle"
  /\ ResetLocals
  /\ outcome' = "raised"
  /\ UNCHANGED <<envVars, fileVars, hostVars>>

\* save_state: tmp_path.open("w"), json.dump(state, fh), close
SaveWriteTmp ==
  /\ pc = "evaluated"
  /\ LET f == save_dump(save_open([disk |-> disk, tmp |-> tmp]), state) IN
       /\ disk' = f.disk
       /\ tmp' = f.tmp
  /\ pc' = "tmp_written"
  /\ UNCHANGED <<envVars, state, evalVars, tailVars, outcome, hostVars>>

\* save_state: tmp_path.replace(state_path); main returns
SaveRename ==
  /\ pc = "tmp_written"
  /\ LET f == save_replace([disk |-> disk, tmp |-> tmp]) IN
       /\ disk' = f.disk
       /\ tmp' = f.tmp
  /\ pc' = "idle"
  /\ ResetLocals
  /\ outcome' = main_exit(FALSE)
  /\ UNCHANGED <<envVars, hostVars>>

\* save_state raises: mkdir or open fails, the write fails (disk full), or
\* the rename fails; the exception leaves main
SaveFail ==
  /\ \/ /\ pc = "evaluated"
        /\ \E stage \in {"open", "write"} :
             LET f == save_state_raising([disk |-> disk, tmp |-> tmp], state, stage) IN
               /\ disk' = f.disk
               /\ tmp' = f.tmp
     \/ /\ pc = "tmp_written"
        /\ LET f == save_state_raising([disk |-> disk, tmp |-> tmp], state, "replace") IN
             /\ disk' = f.disk
             /\ tmp' = f.tmp
  /\ pc' = "idle"
  /\ ResetLocals
  /\ outcome' = main_exit(TRUE)
  /\ UNCHANGED <<envVars, hostVars>>

\* the process dies between two steps of the run
Crash ==
  /\ pc # "idle"
  /\ pc' = "idle"
  /\ clean' = FALSE
  /\ ResetLocals
  /\ outcome' = "killed"
  /\ UNCHANGED <<clock, logFile, seen, docker, estab, fileVars, hostVars>>

\* the process dies inside save_state after tmp_path.open("w") and before
\* the file is closed: the temporary file is left empty or cut short
CrashInWrite ==
  /\ pc = "evaluated"
  /\ LET f == save_open([disk |-> disk, tmp |-> tmp]) IN
       /\ disk' = f.disk
       /\ tmp' = f.tmp
  /\ pc' = "idle"
  /\ clean' = FALSE
  /\ ResetLocals
  /\ outcome' = "killed"
  /\ UNCHANGED <<clock, logFile, seen, docker, estab, hostVars>>

\* the invocation, step by step
Run ==
  \/ Load
  \/ Ingest
  \/ BeginEval
  \/ EvalStep
  \/ SaveWriteTmp
  \/ SaveRename

\* Periodic invocations on a host whose log is only appended to
Next ==
  \/ Tick
  \/ AppendLine
  \/ DockerStart
  \/ DockerStop
  \/ ConnChange
  \/ Run

Spec == Init /\ [][Next]_vars

\* Invocations that may die at any point, on a log that is rotated,
\* truncated or removed between and during them, on a host where no
\* sandbox is running (docker ps lists nothing, the loop body never runs)
NextTail ==
  \/ AppendLine
  \/ RotateLog
  \/ TruncateLog
  \/ RemoveLog
  \/ Load
  \/ Ingest
  \/ BeginEval
  \/ SaveWriteTmp
  \/ SaveRename
  \/ Crash
  \/ CrashInWrite

SpecTail == Init /\ [][NextTail]_vars

\* Host whose state file was left by someone else (an older version of the
\* script, an editor, a full disk), whose docker client may be absent, whose
\* lifecycle tool may fail to execute and whose file system may refuse a
\* write.  The access log holds one request that no run has read yet.
StateFiles ==
  { Missing, Partial, NonObject,
    [kind |-> "full", data |-> {}],
    [kind |-> "full", data |-> { <<"containers", { <<"foo", 1>> }>> }] }

InitFault ==
  /\ clock = 1
  /\ logFile = [exists |-> TRUE, inode |-> 1,
                lines |-> << [ts |-> 1, path |-> <<"/", "foo", "/", "status">>] >>]
  /\ seen = <<0>>
  /\ docker = [n \in Names |->
                 [running |-> FALSE, keyed |-> (n = "foo"),
                  created |-> 1, started |-> 0]]
  /\ estab = {}
  /\ disk \in StateFiles
  /\ tmp = Missing
  /\ AtRest
  /\ clean = TRUE
  /\ docker_bin \in BOOLEAN
  /\ call = NoCall

NextFault ==
  \/ Tick
  \/ DockerStart
  \/ DockerStop
  \/ SkipRun
  \/ Load
  \/ Ingest
  \/ BeginEval
  \/ EvalStep
  \/ EvalStepRaise
  \/ SaveWriteTmp
  \/ SaveRename
  \/ SaveFail

SpecFault == InitFault /\ [][NextFault]_vars

\* ------------------------------------------------------------- single calls
PathTokens == {"/", "foo", "manager", "mcphub", "status"}

\* a token sequence spells a path when no two segments are adjacent
WellFormed(p) == \A i \in 1..(Len(p) - 1) : p[i] = "/" \/ p[i + 1] = "/"

PathInputs ==
  { p \in UNION { [1..k -> PathTokens] : k \in 0..MaxPath } : WellFormed(p) }

BatchPaths ==
  { <<>>, <<"/", "foo", "/", "status">>, <<"/", "bar">>, <<"/", "manager", "/", "health">> }

BatchLines == [ts : Times, path : BatchPaths]

Batches == UNION { [1..k -> BatchLines] : k \in 0..MaxLines }

LogMarks == {NoLog} \cup [inode : 1..MaxInode, pos : 0..MaxLines]

\* ledgers a run can leave: all four keys, stop_history never written
Ledgers ==
  { [Fresh EXCEPT !.log = l, !.containers = c, !.running_since = r] :
      l \in LogMarks, c \in [Names -> Times], r \in [Names -> Times] }

EvalLedgers ==
  { [Fresh EXCEPT !.containers["foo"] = c,
                  !.running_since = [foo |-> a, bar |-> b]] :
      c \in Times, a \in Times, b \in {0, 1} }

Runtimes ==
  { [n \in Names |->
       IF n = "foo"
       THEN [running |-> rf, keyed |-> TRUE, created |-> cr, started |-> s]
       ELSE [running |-> rb, keyed |-> FALSE, created |-> 1, started |-> 0]] :
      rf \in BOOLEAN, rb \in BOOLEAN, cr \in Times, s \in Times }

\* a runtime as it can be at time t: nothing was created or started later
\* than t, and a container was created before it was started
Plausible(dk, t) ==
  \A n \in Names :
    /\ dk[n].created <= t
    /\ dk[n].started <= t
    /\ (dk[n].started = 0 \/ dk[n].created <= dk[n].started)

\* how the ss probe of one evaluation goes
SsProbes == [found : BOOLEAN, run : SsRuns]
SsWorks == [found |-> TRUE, run |-> "zero"]

ExtractCalls ==
  { [fn |-> "extract", arg |-> p, ret |-> <<>>, done |-> FALSE] : p \in PathInputs }

IngestCalls ==
  { [fn |-> "ingest", arg |-> [containers |-> c, lines |-> b],
     ret |-> <<>>, done |-> FALSE] : c \in [Names -> Times], b \in Batches }

\* lines of requests to the two sandboxes, the timestamp parsable or not
ReadLines == [ts : Times, path : { <<"/", "foo", "/", "status">>, <<"/", "bar">> }]

ReadBatches == UNION { [1..k -> ReadLines] : k \in 0..MaxLines }

\* a batch that is ingested, then, after a run may have stamped foo with its
\* now (stamp, 0 for no stamp), read again in full.  The now of a run is
\* not earlier than the lines the run has ingested.
ReIngestCalls ==
  { c \in
      { [fn |-> "reingest", arg |-> [containers |-> h, lines |-> b, stamp |-> q],
         ret |-> <<>>, done |-> FALSE] :
          h \in [Names -> Times], b \in ReadBatches, q \in Times } :
      c.arg.stamp = 0
        \/ \A i \in 1..Len(c.arg.lines) : c.arg.lines[i].ts <= c.arg.stamp }

RoundTripCalls ==
  { [fn |-> "roundtrip", arg |-> st, ret |-> <<>>, done |-> FALSE] : st \in Ledgers }

\* evaluations on a host whose registry and ss are in order
EvalCalls ==
  { c \in
      { [fn |-> "evaluate",
         arg |-> [st |-> st, dk |-> dk, reg |-> InstalledRegistry,
                  ss |-> SsWorks, conns |-> ps, t |-> t,
                  inspectOK |-> io, stopOK |-> so],
         ret |-> <<>>, done |-> FALSE] :
          st \in EvalLedgers, dk \in Runtimes, ps \in SUBSET Ports,
          t \in 1..MaxTime, io \in BOOLEAN, so \in [1..2 -> BOOLEAN] } :
      Plausible(c.arg.dk, c.arg.t) }

\* evaluations of a running foo on a host whose registry file or ss may be
\* out of order
ProbeCalls ==
  { c \in
      { [fn |-> "evaluate",
         arg |-> [st |-> [Fresh EXCEPT !.containers["foo"] = h],
                  dk |-> [n \in Names |->
                            [running |-> (n = "foo"), keyed |-> (n = "foo"),
                             created |-> 1, started |-> IF n = "foo" THEN s ELSE 0]],
                  reg |-> rg, ss |-> ss, conns |-> ps, t |-> t,
                  inspectOK |-> TRUE, stopOK |-> [k \in 1..2 |-> so]],
         ret |-> <<>>, done |-> FALSE] :
          h \in Times, s \in Times, rg \in RegistryFiles, ss \in SsProbes,
          ps \in SUBSET Ports, t \in 1..MaxTime, so \in BOOLEAN } :
      Plausible(c.arg.dk, c.arg.t) }

InitCalls ==
  /\ clock = 1
  /\ logFile = [exists |-> TRUE, inode |-> 1, lines |-> <<>>]
  /\ seen = <<>>
  /\ docker = [n \in Names |->
                 [running |-> FALSE, keyed |-> (n = "foo"),
                  created |-> 1, started |-> 0]]
  /\ estab = {}
  /\ disk = Missing
  /\ tmp = Missing
  /\ AtRest
  /\ clean = TRUE
  /\ docker_bin = TRUE
  /\ call \in ExtractCalls \cup IngestCalls \cup RoundTripCalls \cup ReIngestCalls

\* extract_container_from_path(path)
CallExtract ==
  /\ call.fn = "extract"
  /\ ~call.done
  /\ call' = [call EXCEPT !.ret = extract_container_from_path(call.arg),
                          !.done = TRUE]
  /\ UNCHANGED <<envVars, fileVars, pc, state, evalVars, tailVars, outcome, docker_bin>>

\* update_activity_from_logs on a ledger without watermark and a log that
\* holds the batch
CallIngest ==
  /\ call.fn = "ingest"
  /\ ~call.done
  /\ LET st == [Fresh EXCEPT !.containers = call.arg.containers]
         file == [exists |-> TRUE, inode |-> 1, lines |-> call.arg.lines]
     IN call' = [call EXCEPT !.ret = update_activity_from_logs(st, file).containers,
                             !.done = TRUE]
  /\ UNCHANGED <<envVars, fileVars, pc, state, evalVars, tailVars, outcome, docker_bin>>

\* what the evaluator wrote to containers between the two readings
Stamped(containers, stamp) ==
  IF stamp = 0 THEN containers ELSE [containers EXCEPT !["foo"] = stamp]

\* update_activity_from_logs on a log that holds the batch: first on a
\* ledger without watermark, then on the ledger that run saved, after the
\* file was replaced by one of another inode with the same lines, so that
\* iter_new_log_lines reads from the start
CallReIngest ==
  /\ call.fn = "reingest"
  /\ ~call.done
  /\ LET k == Len(call.ret) + 1
         file == [exists |-> TRUE, inode |-> k, lines |-> call.arg.lines]
         st == IF k = 1
               THEN [Fresh EXCEPT !.containers = call.arg.containers]
               ELSE [call.ret[1] EXCEPT
                       !.containers = Stamped(@, call.arg.stamp)]
     IN call' = [call EXCEPT !.ret = Append(@, update_activity_from_logs(st, file)),
                             !.done = (k = 2)]
  /\ UNCHANGED <<envVars, fileVars, pc, state, evalVars, tailVars, outcome, docker_bin>>

\* save_state(path, ledger)
CallSave ==
  /\ call.fn = "roundtrip"
  /\ disk.kind = "missing"
  /\ LET f == save_state([disk |-> disk, tmp |-> tmp], call.arg) IN
       /\ disk' = f.disk
       /\ tmp' = f.tmp
  /\ UNCHANGED <<envVars, pc, state, evalVars, tailVars, outcome, hostVars>>

\* load_state(path)
CallLoad ==
  /\ call.fn = "roundtrip"
  /\ disk.kind # "missing"
  /\ ~call.done
  /\ call' = [call EXCEPT !.ret = load_state(disk).st, !.done = TRUE]
  /\ UNCHANGED <<envVars, fileVars, pc, state, evalVars, tailVars, outcome, docker_bin>>

NextCalls ==
  \/ CallExtract
  \/ CallIngest
  \/ CallReIngest
  \/ CallSave
  \/ CallLoad

SpecCalls == InitCalls /\ [][NextCalls]_vars

\* ------------------------------------------------------------- evaluations
\* Calls of evaluate_and_stop_idle, each on a ledger, a runtime, a registry
\* file, an ss probe and a set of connections drawn beforehand.
InitEval ==
  /\ clock = 1
  /\ logFile = [exists |-> TRUE, inode |-> 1, lines |-> <<>>]
  /\ seen = <<>>
  /\ docker = [n \in Names |->
                 [running |-> FALSE, keyed |-> (n = "foo"),
                  created |-> 1, started |-> 0]]
  /\ estab = {}
  /\ disk = Missing
  /\ tmp = Missing
  /\ AtRest
  /\ clean = TRUE
  /\ docker_bin = TRUE
  /\ call \in EvalCalls \cup ProbeCalls

\* the ledger the k-th evaluation of the call starts from
LedgerBefore(k) == IF k = 1 THEN call.arg.st ELSE call.ret[k - 1].st

\* evaluate_and_stop_idle, a first and a second time on the ledger the
\* first left, at the same now, with the runtime, the registry and the
\* active ports as they were
CallEvaluate ==
  /\ call.fn = "evaluate"
  /\ Len(call.ret) < 2
  /\ LET k == Len(call.ret) + 1
         a == call.arg
         r == evaluate_and_stop_idle(
                LedgerBefore(k), a.t, a.dk, load_registry(a.reg),
                collect_active_ports(a.ss.found, a.ss.run, a.conns),
                a.inspectOK, a.stopOK[k])
     IN call' = [call EXCEPT !.ret = Append(@, r), !.done = (k = 2)]
  /\ UNCHANGED <<envVars, fileVars, pc, state, evalVars, tailVars, outcome, docker_bin>>

NextEval == CallEvaluate

SpecEval == InitEval /\ [][NextEval]_vars

\* ------------------------------------------------------------- a quiet sandbox
\* Host on which foo runs from the start and stays managed, with or without
\* a start time and a creation time the runtime can report, with at most
\* one request logged before the first run and none after, no connection
\* on its ports, docker ps and docker inspect answering and the lifecycle
\* tool stopping what it is asked to stop.  The external scheduler invokes
\* the watcher again and again, each run saves its state, and time passes.
InitLive ==
  /\ clock = 1
  /\ \E ls \in { <<>>, <<[ts |-> 1, path |-> <<"/", "foo", "/", "status">>]>> } :
       /\ logFile = [exists |-> TRUE, inode |-> 1, lines |-> ls]
       /\ seen = [i \in 1..Len(ls) |-> 0]
  /\ \E cr \in {0, 1}, s \in {0, 1} :
       docker = [n \in Names |->
                   [running |-> (n = "foo"), keyed |-> (n = "foo"),
                    created |-> IF n = "foo" THEN cr ELSE 1,
                    started |-> IF n = "foo" THEN s ELSE 0]]
  /\ estab = {}
  /\ disk = Missing
  /\ tmp = Missing
  /\ AtRest
  /\ clean = TRUE
  /\ docker_bin = TRUE
  /\ call = NoCall

\* evaluate_and_stop_idle starts and docker ps answers
LiveBeginEval ==
  /\ BeginEval
  /\ names' = list_managed_container_names(docker, TRUE)

\* a loop iteration in which docker inspect answers and a stop, if
\* attempted, succeeds
LiveEvalStep ==
  /\ EvalStep
  /\ \A n \in Names : decision'[n] \notin {"skip", "stop_fail"}

LiveRun ==
  \/ Load
  \/ Ingest
  \/ LiveBeginEval
  \/ LiveEvalStep
  \/ SaveWriteTmp
  \/ SaveRename

NextLive ==
  \/ Tick
  \/ LiveRun

SpecLive ==
  /\ InitLive
  /\ [][NextLive]_vars
  /\ WF_vars(Tick)
  /\ WF_vars(LiveRun)

\* ------------------------------------------------------------- overlapping runs
\* Two invocations whose runs overlap reach save_state, each with the
\* ledger it computed.  Both use the one path state_path.with_suffix(".tmp").
\* An open file is known by the path its inode is at: it follows the inode
\* when tmp is renamed to the state path.  json.dump goes through the
\* buffer of the file object and reaches the file when the with block
\* closes it.
Invocations == {"A", "B"}

SavedLedgers ==
  { [Fresh EXCEPT !.log = [inode |-> 1, pos |-> 1],
                  !.containers["foo"] = c,
                  !.running_since["foo"] = r] :
      c \in Times, r \in Times }

\* the length of an object text, counted in the members of its objects
TextLen(text) ==
  Cardinality(UNION { { <<m[1], e>> : e \in m[2] } : m \in text })

\* a file after the text of st was written into it from offset 0: a longer
\* text that was there keeps its tail, and the whole does not parse
Overlay(file, st) ==
  IF file.kind = "full" /\ TextLen(file.data) > TextLen(json_dump(st))
  THEN Partial
  ELSE Full(st)

OverlapCalls ==
  { [fn |-> "overlap",
     arg |-> [old |-> o, st |-> [A |-> a, B |-> b]],
     ret |-> [i \in Invocations |-> [pc |-> "start", fd |-> "none"]],
     done |-> FALSE] :
      o \in {Missing, Full([Fresh EXCEPT !.containers["foo"] = 1])},
      a \in SavedLedgers, b \in SavedLedgers }

InitOverlap ==
  /\ clock = 1
  /\ logFile = [exists |-> TRUE, inode |-> 1, lines |-> <<>>]
  /\ seen = <<>>
  /\ docker = [n \in Names |->
                 [running |-> FALSE, keyed |-> (n = "foo"),
                  created |-> 1, started |-> 0]]
  /\ estab = {}
  /\ call \in OverlapCalls
  /\ disk = call.arg.old
  /\ tmp = Missing
  /\ AtRest
  /\ clean = TRUE
  /\ docker_bin = TRUE

\* tmp_path.open("w") of invocation i: the file at tmp is created, or
\* truncated if the other invocation has it there
OverlapOpen ==
  /\ call.fn = "overlap"
  /\ \E i \in Invocations :
       /\ call.ret[i].pc = "start"
       /\ tmp' = save_open([disk |-> disk, tmp |-> tmp]).tmp
       /\ call' = [call EXCEPT !.ret[i] = [pc |-> "opened", fd |-> "tmp"]]
  /\ UNCHANGED <<envVars, disk, pc, state, evalVars, tailVars, outcome, docker_bin>>

\* json.dump(state, fh) and the end of the with block of invocation i: its
\* text lands in the file it has open, wherever that file is by now
OverlapDump ==
  /\ call.fn = "overlap"
  /\ \E i \in Invocations :
       /\ call.ret[i].pc = "opened"
       /\ IF call.ret[i].fd = "tmp"
          THEN /\ tmp' = Overlay(tmp, call.arg.st[i])
               /\ disk' = disk
          ELSE /\ disk' = Overlay(disk, call.arg.st[i])
               /\ tmp' = tmp
       /\ call' = [call EXCEPT !.ret[i] = [pc |-> "closed", fd |-> "none"]]
  /\ UNCHANGED <<envVars, pc, state, evalVars, tailVars, outcome, docker_bin>>

\* tmp_path.replace(state_path) of invocation i: FileNotFoundError when the
\* other invocation has renamed tmp away; otherwise the file at tmp, open
\* or not, becomes the state file
OverlapReplace ==
  /\ call.fn = "overlap"
  /\ \E i \in Invocations :
       /\ call.ret[i].pc = "closed"
       /\ IF tmp.kind = "missing"
          THEN /\ call' = [call EXCEPT !.ret[i].pc = "raised"]
               /\ UNCHANGED fileVars
          ELSE /\ disk' = save_replace([disk |-> disk, tmp |-> tmp]).disk
               /\ tmp' = save_replace([disk |-> disk, tmp |-> tmp]).tmp
               /\ call' = [call EXCEPT
                             !.ret = [j \in Invocations |->
                                        IF j = i THEN [pc |-> "saved", fd |-> "none"]
                                        ELSE IF call.ret[j].fd = "tmp"
                                        THEN [call.ret[j] EXCEPT !.fd = "disk"]
                                        ELSE call.ret[j]]]
  /\ UNCHANGED <<envVars, pc, state, evalVars, tailVars, outcome, docker_bin>>

NextOverlap ==
  \/ OverlapOpen
  \/ OverlapDump
  \/ OverlapReplace

SpecOverlap == InitOverlap /\ [][NextOverlap]_vars

TypeOK ==
  /\ clock \in 1..MaxTime
  /\ pc \in {"idle", "loaded", "ingested", "eval", "evaluated", "tmp_written"}
  /\ outcome \in {"none", "running", "skipped", "saved", "raised", "killed"}
  /\ docker_bin \in BOOLEAN
  /\ state.keys \subseteq TopKeys
  /\ Len(seen) = Len(logFile.lines)

\* ------------------------------------------------------------- properties
\* the ledger a run would load from the state path
Persisted == load_state(disk).st

Stops == {"stop_ok", "stop_fail"}
Threshed == {"keep", "stop_ok", "stop_fail"}

\* n's registry entry has a candidate port in the active-port set of this run
HasActivePort(n) ==
  \E i \in 1..Len(PortKeys) :
    /\ RegistryFile[n][PortKeys[i]] > 0
    /\ RegistryFile[n][PortKeys[i]] \in active_ports

\* this step is the loop iteration of evaluate_and_stop_idle for n
EvalStepOf(n) ==
  /\ pc = "eval"
  /\ idx <= Len(names)
  /\ names[idx] = n
  /\ idx' = idx + 1

\* this step is the LogTailer pass of the run
IngestStep == pc = "loaded" /\ pc' = "ingested"

\* C1: a running managed sandbox with a candidate port in the active-port
\* set is never handed to stop_container in that run, however stale its
\* ledger entries are.
C1_ActiveNeverStopped ==
  \A n \in Names :
    (decision[n] \notin {"none", "skip"} /\ HasActivePort(n))
      => decision[n] \notin Stops

\* C1 witness: foo was kept as actively connected although its persisted
\* activity and its start time lie at least the threshold behind now.
C1_Witness ==
  /\ decision["foo"] = "active"
  /\ HasActivePort("foo")
  /\ Persisted.containers["foo"] > 0
  /\ now - Persisted.containers["foo"] >= Threshold
  /\ docker["foo"].started > 0
  /\ now - docker["foo"].started >= Threshold
  /\ logFile.lines = <<>>

\* C2 (as claimed): a collected sandbox without an active candidate port
\* whose last_http_activity is at least the threshold behind now is handed
\* to stop_container.
C2_StaleHttpAlwaysStops ==
  [][\A n \in Names :
       (/\ EvalStepOf(n)
        /\ decision'[n] # "skip"
        /\ ~HasActivePort(n)
        /\ state.containers[n] > 0
        /\ now - state.containers[n] >= Threshold)
       => decision'[n] \in Stops]_vars

\* C2 (amended): it is handed to stop_container when, besides
\* last_http_activity, its start time (the runtime's StartedAt, else the
\* recorded running_since, else now), the recorded running_since and its
\* creation time are all at least the threshold behind now.
C2_AllStaleStops ==
  [][\A n \in Names :
       (/\ EvalStepOf(n)
        /\ decision'[n] # "skip"
        /\ ~HasActivePort(n)
        /\ state.containers[n] > 0
        /\ now - state.containers[n] >= Threshold
        /\ now - state.running_since[n] >= Threshold
        /\ now - docker[n].created >= Threshold
        /\ now - (IF docker[n].started # 0 THEN docker[n].started
                  ELSE IF state.running_since[n] # 0 THEN state.running_since[n]
                  ELSE now) >= Threshold)
       => decision'[n] \in Stops]_vars

\* C2 witness: foo was handed to stop_container with last_http_activity
\* exactly the threshold behind now.
C2_Witness ==
  /\ decision["foo"] = "stop_fail"
  /\ state.containers["foo"] > 0
  /\ now - state.containers["foo"] = Threshold
  /\ ~HasActivePort("foo")

\* C3: after a successful automated stop of n in a run with time now,
\* stop_history[n] equals now.
C3_StopHistoryStamped ==
  \A n \in Names : decision[n] = "stop_ok" => state.stop_history[n] = now

\* C4: the inactivity the evaluator computes for a sandbox is never negative.
C4_InactivityNonNegative ==
  \A n \in Names : decision[n] \in Threshed => inact[n] >= 0

\* the ledger the next step of the process starts from
Current == IF pc = "idle" THEN Persisted ELSE state

\* C5: last_http_activity[n] never decreases: not in the persisted ledger,
\* and not from one step of a run to the next (log ingestion, the
\* active-connection branch, a successful stop).
C5_ActivityMonotonic ==
  [][\A n \in Names :
       /\ (disk' # disk
             => load_state(disk').st.containers[n] >= Persisted.containers[n])
       /\ (pc' # "idle" => state'.containers[n] >= Current.containers[n])]_vars

\* C5 witness: a pass yielded a line for foo that is older than the value
\* recorded for foo, and the recorded value stayed.
C5_Witness ==
  /\ pc = "ingested"
  /\ Len(yielded) > 0
  /\ yielded[1].ts < Persisted.containers["foo"]
  /\ state.containers["foo"] = Persisted.containers["foo"]

\* C6: the stored log offset decreases only in a pass that found the file's
\* identity different from the stored one or the stored offset beyond the
\* file's size (and so read from offset 0).
C6_OffsetOnlyAdvances ==
  [][/\ ((disk' # disk /\ load_state(disk').st.log.pos < Persisted.log.pos)
           => tail = "restart")
     /\ ((IngestStep /\ state'.log.pos < state.log.pos)
           => (state.log.inode # logFile.inode
                 \/ state.log.pos > Len(logFile.lines)))]_vars

\* C6 witness: a run whose pass restarted at 0 is about to replace the
\* persisted offset by a smaller one.
C6_Witness ==
  /\ pc = "tmp_written"
  /\ tail = "restart"
  /\ load_state(tmp).st.log.pos < Persisted.log.pos

\* C7: when the file's identity differs from the stored one, or the stored
\* offset exceeds the file's size, the pass yields every line of the file
\* from offset 0 and stores the file's identity and end position.
C7_RestartReadsAll ==
  [][(/\ IngestStep
      /\ logFile.exists
      /\ (state.log.inode # logFile.inode
            \/ state.log.pos > Len(logFile.lines)))
     => (/\ yielded' = logFile.lines
         /\ state'.log = [inode |-> logFile.inode, pos |-> Len(logFile.lines)])]_vars

\* C7 witness: a pass over a file that shrank below the stored offset
\* yielded its lines.
C7_Witness ==
  /\ pc = "ingested"
  /\ tail = "restart"
  /\ Persisted.log.inode = logFile.inode
  /\ Persisted.log.pos > Len(yielded)
  /\ Len(yielded) > 0
  /\ yielded = logFile.lines

\* every line was yielded once if it lies before the watermark, and not at
\* all otherwise
ExactlyOnce ==
  \A i \in 1..Len(seen) : seen[i] = IF i <= Current.log.pos THEN 1 ELSE 0

\* C8: when the identity matches and the stored offset is within the file,
\* the pass yields exactly the lines after the stored offset and stores the
\* identity with the end position; while the file is only appended to and
\* every pass is persisted, every line is yielded exactly once.
C8_ResumeReadsNew ==
  /\ [](clean => ExactlyOnce)
  /\ [][(/\ IngestStep
         /\ logFile.exists
         /\ state.log.inode = logFile.inode
         /\ state.log.pos <= Len(logFile.lines))
        => (/\ yielded' = SubSeq(logFile.lines, state.log.pos + 1, Len(logFile.lines))
            /\ state'.log = [inode |-> logFile.inode, pos |-> Len(logFile.lines)])]_vars

\* C8 witness: a second pass resumed behind the first line and yielded the
\* second line only.
C8_Witness ==
  /\ clean
  /\ pc = "ingested"
  /\ tail = "resume"
  /\ Len(logFile.lines) = 2
  /\ yielded = <<logFile.lines[2]>>
  /\ seen = <<1, 1>>

\* C9: when the log file does not exist the pass yields nothing and leaves
\* the watermark and last_http_activity as they were.
C9_MissingLogNoChange ==
  [][(IngestStep /\ ~logFile.exists)
     => (yielded' = <<>> /\ state' = state)]_vars

\* C9 witness: a pass found no file while a watermark was stored.
C9_Witness ==
  /\ pc = "ingested"
  /\ tail = "missing"
  /\ state.log.inode # 0
  /\ state.log.pos > 0

\* C10: whenever the file at the state path changes it becomes the complete
\* ledger of the saving run, and it is never a partially written file, also
\* when runs die before, during or after writing the temporary file.
C10_StateFileComplete ==
  /\ [](disk.kind # "partial")
  /\ [][disk' # disk => disk' = Full(state)]_vars

\* C10 witness: a run died while writing the temporary file, and the next
\* run loaded the complete ledger an earlier run had saved.
C10_Witness ==
  /\ pc = "loaded"
  /\ tmp.kind = "partial"
  /\ disk.kind = "full"
  /\ state = Persisted
  /\ state.log.pos > 0

\* ------------------------------------------------------------- ledger store
\* C11: for every ledger a run can leave, save_state followed by load_state
\* on the same path returns the same log watermark and the same
\* containers, running_since and stop_history maps.
C11_RoundTrip ==
  (call.fn = "roundtrip" /\ call.done)
    => /\ call.ret.log = call.arg.log
       /\ call.ret.containers = call.arg.containers
       /\ call.ret.running_since = call.arg.running_since
       /\ call.ret.stop_history = call.arg.stop_history

\* C11 witness: a ledger with a watermark, an activity stamp and a start
\* time came back from the file as it was saved.
C11_Witness ==
  /\ call.fn = "roundtrip"
  /\ call.done
  /\ call.arg.log.inode > 0
  /\ call.arg.log.pos > 0
  /\ call.arg.containers["foo"] > 0
  /\ call.arg.running_since["foo"] > 0
  /\ call.arg.running_since["bar"] = 0
  /\ disk.kind = "full"
  /\ call.ret = call.arg

\* this step is main getting past the docker test with a state file that is
\* missing, unparsable or no JSON object
LoadOfBadFile ==
  /\ pc = "idle"
  /\ docker_bin
  /\ disk.kind \in {"missing", "partial", "nonobject"}
  /\ (pc' # "idle" \/ outcome' # outcome)

\* C12: load_state never raises: with the state file missing, unparsable or
\* parsing to something that is no JSON object it returns the fresh ledger
\* and the run goes on.
C12_LoadNeverRaises ==
  [][LoadOfBadFile
     => (pc' = "loaded" /\ state' = Fresh /\ outcome' = "running")]_vars

\* C12 witness: a run loaded the fresh ledger from a file holding valid
\* JSON that is no object.
C12_Witness ==
  /\ pc = "loaded"
  /\ disk.kind = "nonobject"
  /\ state = Fresh
  /\ outcome = "running"

\* C13: every ledger load_state returned and every ledger save_state wrote
\* has the four top-level entries, also when the file loaded was missing,
\* unparsable or lacked some of them.
C13_FourKeysPresent ==
  /\ [](pc # "idle" => state.keys = TopKeys)
  /\ [][/\ ((tmp' # tmp /\ tmp'.kind = "full")
              => json_load(tmp'.data).keys = TopKeys)
        /\ (disk' # disk => json_load(disk'.data).keys = TopKeys)]_vars

\* C13 witness: a run that loaded a file without log, running_since and
\* stop_history has written a temporary file that holds all four.
C13_Witness ==
  /\ pc = "tmp_written"
  /\ disk.kind = "full"
  /\ json_load(disk.data).keys = {"containers"}
  /\ json_load(tmp.data).keys = TopKeys
  /\ state.keys = TopKeys

\* ------------------------------------------------------------- evaluator
\* stop or keep: what a decision means for the sandbox
Verdict(d) ==
  IF d \in Stops THEN "stop"
  ELSE IF d \in {"keep", "active"} THEN "keep"
  ELSE d

\* C14 (as claimed): a second evaluation on the ledger the first left, with
\* no new log lines and the runtime, registry and active ports unchanged,
\* decides stop or keep for every sandbox as the first did.
C14_SameDecisions ==
  (call.fn = "evaluate" /\ call.done)
    => \A n \in Names :
         Verdict(call.ret[2].decision[n]) = Verdict(call.ret[1].decision[n])

\* C14 (amended): it decides as the first did for every sandbox that the
\* first evaluation did not stop successfully, when both evaluations use
\* the same now.
C14_SameUnlessStopped ==
  (call.fn = "evaluate" /\ call.done)
    => \A n \in Names :
         call.ret[1].decision[n] # "stop_ok"
           => Verdict(call.ret[2].decision[n]) = Verdict(call.ret[1].decision[n])

\* C14 witness: the first evaluation's stop of foo failed and the second
\* evaluation handed foo to stop_container again.
C14_Witness ==
  /\ call.fn = "evaluate"
  /\ call.done
  /\ call.ret[1].decision["foo"] = "stop_fail"
  /\ call.ret[2].decision["foo"] = "stop_ok"
  /\ call.arg.dk["foo"].running

\* C15: at the end of an evaluation running_since has no entry for a
\* sandbox that a prior run recorded and that this run did not get back as
\* running and managed, be it listed and not collected or not listed at all.
C15_StaleRunningSinceDropped ==
  pc = "evaluated"
    => \A n \in Names :
         (Persisted.running_since[n] # 0 /\ decision[n] \in {"none", "skip"})
           => state.running_since[n] = 0

\* C16: a failure while inspecting or stopping one sandbox never leaves the
\* evaluation: the loop goes on to the next name or to its end and the run
\* stays on its way to save_state.
C16_FailuresContained ==
  [][pc = "eval" => (pc' \in {"eval", "evaluated"} /\ outcome' = "running")]_vars

\* ------------------------------------------------------------- main
\* C17: without the docker client a run is a no-op that exits with status
\* 0: the state file and its temporary file stay as they are, no line of
\* the log is read, nothing is decided or stopped, main returns 0.
C17_NoClientNoOp ==
  [][(pc = "idle" /\ ~docker_bin)
     => /\ pc' = "idle"
        /\ UNCHANGED <<disk, tmp, state, seen, yielded, tail, decision>>
        /\ (outcome' # outcome => outcome' = "skipped")]_vars

\* C17 witness: a run returned 0 without the client while foo was running
\* and the log held a line behind the persisted watermark.
C17_Witness ==
  /\ outcome = "skipped"
  /\ ~docker_bin
  /\ disk.kind = "full"
  /\ Persisted.log.pos < Len(logFile.lines)
  /\ seen = <<0>>
  /\ docker["foo"].running
  /\ clock - docker["foo"].started >= Threshold

\* C18: a run comes to its end either with the ledger saved and main
\* returning 0, or, when writing the temporary file or the rename failed,
\* with the exception leaving main and the file at the state path as it was.
C18_SaveFailurePropagates ==
  [][(pc \in {"evaluated", "tmp_written"} /\ pc' = "idle")
     => \/ (outcome' = "saved" /\ disk' = Full(state))
        \/ (outcome' = "raised" /\ disk' = disk)]_vars

\* C18 witness: the rename failed; the state path still holds the ledger
\* with the old watermark, the temporary file the one the run had reached.
C18_Witness ==
  /\ pc = "idle"
  /\ outcome = "raised"
  /\ disk.kind = "full"
  /\ tmp.kind = "full"
  /\ load_state(tmp).st.log.pos > Persisted.log.pos

\* ------------------------------------------------------------- extractor
\* the first token behind the leading slash that is a segment, "" if none
FirstSegment(path) ==
  LET at == { i \in 2..Len(path) : path[i] # "/" } IN
  IF at = {} THEN "" ELSE path[CHOOSE i \in at : \A j \in at : i <= j]

\* C19: for a path with a leading slash the extractor yields the first
\* non-empty segment behind it, and nothing when there is no segment or
\* the segment is manager or mcphub.
C19_FirstNonEmptySegment ==
  (call.fn = "extract" /\ call.done /\ Len(call.arg) > 0 /\ call.arg[1] = "/")
    => call.ret = (IF FirstSegment(call.arg) \in {"manager", "mcphub"}
                   THEN "" ELSE FirstSegment(call.arg))

\* the largest member of a non-empty set of numbers
SetMax(S) == CHOOSE x \in S : \A y \in S : x >= y

\* the timestamps of the events of a batch that are attributed to n
EventTimes(lines, n) ==
  { lines[i].ts : i \in { j \in 1..Len(lines) :
                             /\ Attributed(lines[j])
                             /\ extract_container_from_path(lines[j].path) = n } }

\* C20: after a batch, in whatever order its lines come, the activity
\* stamp of every name is the maximum of its previous value and the
\* timestamps of the batch's events for that name; lines without parsable
\* timestamp or without request token count for nothing.
C20_BatchMaximum ==
  (call.fn = "ingest" /\ call.done)
    => \A n \in Names :
         call.ret[n] = SetMax({call.arg.containers[n]}
                                \cup EventTimes(call.arg.lines, n))

\* C20 witness: a batch with foo's events in descending order above the
\* previous value.
C20_Witness ==
  /\ call.fn = "ingest"
  /\ call.done
  /\ Len(call.arg.lines) = 2
  /\ Attributed(call.arg.lines[1])
  /\ Attributed(call.arg.lines[2])
  /\ extract_container_from_path(call.arg.lines[1].path) = "foo"
  /\ extract_container_from_path(call.arg.lines[2].path) = "foo"
  /\ call.arg.lines[1].ts > call.arg.lines[2].ts
  /\ call.arg.lines[2].ts > call.arg.containers["foo"]
  /\ call.ret["foo"] = call.arg.lines[1].ts

\* ------------------------------------------------------------- evaluator branches
\* the item of n in the registry file has a port field whose text is digits
NumericField(file, n) ==
  \E i \in 1..Len(PortKeys) : file.data[n][PortKeys[i]] > 0

\* the k-th evaluation of the call got a record for n from the runtime
Collected(n) ==
  /\ call.arg.inspectOK
  /\ call.arg.dk[n].running
  /\ call.arg.dk[n].keyed

\* C21: when ss is missing or its run fails, or the registry file is absent,
\* unreadable, not a list, or has no numeric port field for a sandbox, the
\* evaluation returns and does not take the active-connection branch for
\* that sandbox: a collected sandbox goes through the threshold steps.
C21_DegradedProbesNeverActive ==
  call.fn = "evaluate"
    => \A k \in 1..Len(call.ret), n \in Names :
         (\/ ~call.arg.ss.found
          \/ call.arg.ss.run # "zero"
          \/ call.arg.reg.kind # "list"
          \/ ~NumericField(call.arg.reg, n))
           => /\ call.ret[k].decision[n] # "active"
              /\ (Collected(n) => call.ret[k].decision[n] \in Threshed)

\* C21 witness: foo has a connection on its registered port, ss is not
\* installed, and the evaluation stopped foo for inactivity.
C21_Witness ==
  /\ call.fn = "evaluate"
  /\ Len(call.ret) >= 1
  /\ 6081 \in call.arg.conns
  /\ call.arg.reg = InstalledRegistry
  /\ ~call.arg.ss.found
  /\ call.ret[1].decision["foo"] = "stop_ok"

\* C22: after a stop of n that succeeded in the run with time now, n is
\* absent from running_since and containers[n] is now; and whenever a run
\* takes n through the threshold steps, the last_seen it measures from is
\* no earlier than the containers[n] the ledger holds, which is the stop
\* time or later once a stop was recorded.
C22_StopStampsLedger ==
  \A n \in Names :
    /\ decision[n] = "stop_ok"
         => /\ state.running_since[n] = 0
            /\ state.containers[n] = now
    /\ decision[n] \in {"keep", "stop_fail"}
         => now - inact[n] >= state.containers[n]

\* C22 witness: no request was ever logged, an earlier run stopped foo and
\* saved the stop time, foo was started again with no readable start time,
\* and this run keeps it, measuring from the stop time or later.
C22_Witness ==
  /\ logFile.lines = <<>>
  /\ clean
  /\ estab = {}
  /\ Persisted.containers["foo"] > 0
  /\ Persisted.running_since["foo"] = 0
  /\ docker["foo"].running
  /\ docker["foo"].started = 0
  /\ decision["foo"] = "keep"
  /\ now - inact["foo"] >= Persisted.containers["foo"]

\* a candidate port of n's registry item is in the active-port set of the call
ConnectedTo(n) ==
  /\ call.arg.reg.kind = "list"
  /\ call.arg.ss = SsWorks
  /\ \E i \in 1..Len(PortKeys) :
       /\ call.arg.reg.data[n][PortKeys[i]] > 0
       /\ call.arg.reg.data[n][PortKeys[i]] \in call.arg.conns

\* created_at of the record: Created, else StartedAt, else 0
CreatedAt(n) ==
  IF call.arg.dk[n].created # 0 THEN call.arg.dk[n].created
  ELSE call.arg.dk[n].started

\* C23: for a collected sandbox with a candidate port in the active-port
\* set, the evaluation sets running_since[n] to the maximum of (start time,
\* or now when there is none), the previous running_since[n] (0 when
\* absent) and created_at, sets containers[n] to now, and neither checks
\* the threshold nor stops it.
C23_ActiveBranch ==
  call.fn = "evaluate"
    => \A k \in 1..Len(call.ret), n \in Names :
         (Collected(n) /\ ConnectedTo(n))
           => /\ call.ret[k].decision[n] = "active"
              /\ call.ret[k].st.running_since[n] =
                   Max3(IF call.arg.dk[n].started # 0
                        THEN call.arg.dk[n].started ELSE call.arg.t,
                        LedgerBefore(k).running_since[n],
                        CreatedAt(n))
              /\ call.ret[k].st.containers[n] = call.arg.t
              /\ call.ret[k].st.stop_history = LedgerBefore(k).stop_history

\* C23 witness: foo is connected, its recorded running_since is later than
\* its start time and it has no recorded activity; the evaluation kept the
\* recorded running_since and stamped containers with now.
C23_Witness ==
  /\ call.fn = "evaluate"
  /\ Len(call.ret) >= 1
  /\ Collected("foo")
  /\ ConnectedTo("foo")
  /\ call.arg.dk["foo"].started # 0
  /\ call.arg.st.running_since["foo"] > call.arg.dk["foo"].started
  /\ call.arg.st.containers["foo"] = 0
  /\ call.ret[1].decision["foo"] = "active"
  /\ call.ret[1].st.running_since["foo"] = call.arg.st.running_since["foo"]
  /\ call.ret[1].st.containers["foo"] = call.arg.t

\* the k-th evaluation took n through the threshold steps
ThresholdPath(k, n) ==
  /\ Collected(n)
  /\ ~ConnectedTo(n)
  /\ call.ret[k].decision[n] \in Threshed

\* started_at as the claim words it: the runtime's start time, else the
\* recorded running_since, else now
ClaimedStart(k, n) ==
  IF call.arg.dk[n].started # 0 THEN call.arg.dk[n].started
  ELSE IF LedgerBefore(k).running_since[n] # 0 THEN LedgerBefore(k).running_since[n]
  ELSE call.arg.t

\* C24: for a collected sandbox that is not connected, running_since[n]
\* becomes started_at only if started_at is greater than the recorded
\* value, so unless the evaluation stops n the value does not decrease, in
\* the first evaluation and in the next; and a sandbox with no start time
\* and no recorded running_since is kept (Threshold > 0).
C24_RunningSinceAdvances ==
  call.fn = "evaluate"
    => \A k \in 1..Len(call.ret), n \in Names :
         ThresholdPath(k, n)
           => /\ call.ret[k].decision[n] # "stop_ok"
                   => /\ call.ret[k].st.running_since[n] =
                           (IF ClaimedStart(k, n) > LedgerBefore(k).running_since[n]
                            THEN ClaimedStart(k, n)
                            ELSE LedgerBefore(k).running_since[n])
                      /\ call.ret[k].st.running_since[n] >=
                           LedgerBefore(k).running_since[n]
              /\ (call.arg.dk[n].started = 0 /\ LedgerBefore(k).running_since[n] = 0)
                   => /\ call.ret[k].decision[n] = "keep"
                      /\ call.ret[k].st.running_since[n] = call.arg.t

\* C24 witness: foo is not connected, its recorded running_since is later
\* than the start time the runtime reports, and two evaluations left the
\* recorded value in place.
C24_Witness ==
  /\ call.fn = "evaluate"
  /\ call.done
  /\ ThresholdPath(1, "foo")
  /\ ThresholdPath(2, "foo")
  /\ call.arg.dk["foo"].started # 0
  /\ call.arg.st.running_since["foo"] > call.arg.dk["foo"].started
  /\ call.ret[1].st.running_since["foo"] = call.arg.st.running_since["foo"]
  /\ call.ret[2].st.running_since["foo"] = call.arg.st.running_since["foo"]

\* last_seen as the claim words it, from the ledger the k-th evaluation
\* starts from: the maximum of running_since[n] (after the start-time
\* step), containers[n] and created_at, or now when that maximum is zero
ClaimedLastSeen(k, n) ==
  LET rs == IF ClaimedStart(k, n) > LedgerBefore(k).running_since[n]
            THEN ClaimedStart(k, n)
            ELSE LedgerBefore(k).running_since[n]
      http == LedgerBefore(k).containers[n]
      m == SetMax({rs, http, CreatedAt(n)})
  IN IF m = 0 THEN call.arg.t ELSE m

\* C25: a collected sandbox that is not connected is kept exactly when
\* now - last_seen < Threshold and handed to stop_container otherwise, so
\* an inactivity equal to the threshold leads to a stop.
C25_ThresholdDecision ==
  call.fn = "evaluate"
    => \A k \in 1..Len(call.ret), n \in Names :
         ThresholdPath(k, n)
           => IF call.arg.t - ClaimedLastSeen(k, n) < Threshold
              THEN call.ret[k].decision[n] = "keep"
              ELSE call.ret[k].decision[n] \in Stops

\* C25 witness: foo's inactivity is exactly the threshold, measured from
\* its creation time, which is later than its ledger entries; it was stopped.
C25_Witness ==
  /\ call.fn = "evaluate"
  /\ Len(call.ret) >= 1
  /\ ThresholdPath(1, "foo")
  /\ call.arg.t - ClaimedLastSeen(1, "foo") = Threshold
  /\ ClaimedLastSeen(1, "foo") = call.arg.dk["foo"].created
  /\ call.arg.st.containers["foo"] < call.arg.dk["foo"].created
  /\ call.ret[1].decision["foo"] = "stop_ok"

\* C26: a listed sandbox for which collect_container_record gives nothing
\* (inspect failed, the container is no longer running or has no owner
\* label) is skipped: it is not stopped, its containers and stop_history
\* entries stay as they were, and the run goes on.
C26_SkipLeavesLedger ==
  [][\A n \in Names :
       (EvalStepOf(n)
          /\ (decision'[n] = "skip" \/ ~docker[n].running \/ ~docker[n].keyed))
         => /\ decision'[n] = "skip"
            /\ docker' = docker
            /\ state'.containers = state.containers
            /\ state'.stop_history = state.stop_history
            /\ state'.log = state.log
            /\ pc' \in {"eval", "evaluated"}
            /\ outcome' = outcome]_vars

\* C26 witness: foo was listed, was gone when it was inspected, and was
\* skipped with its recorded activity in place.
C26_Witness ==
  /\ decision["foo"] = "skip"
  /\ ~docker["foo"].running
  /\ state.containers["foo"] > 0
  /\ pc = "evaluated"

\* C27: when stop_container reports failure for n, the evaluation writes
\* nothing for n after the attempt: n stays in running_since with the value
\* it had before the attempt, containers[n] is not set to now, stop_history
\* is unchanged, and the next evaluation hands n to stop_container again.
C27_FailedStopLeavesLedger ==
  call.fn = "evaluate"
    => \A k \in 1..Len(call.ret), n \in Names :
         call.ret[k].decision[n] = "stop_fail"
           => /\ call.ret[k].st.running_since[n] # 0
              /\ call.ret[k].st.running_since[n] =
                   (IF ClaimedStart(k, n) > LedgerBefore(k).running_since[n]
                    THEN ClaimedStart(k, n)
                    ELSE LedgerBefore(k).running_since[n])
              /\ call.ret[k].st.containers[n] = LedgerBefore(k).containers[n]
              /\ call.ret[k].st.stop_history = LedgerBefore(k).stop_history
              /\ (k = 1 /\ Len(call.ret) = 2) => call.ret[2].decision[n] \in Stops

\* C27 witness: both evaluations tried to stop foo and both attempts
\* failed; foo's recorded activity, older than now, is what it was.
C27_Witness ==
  /\ call.fn = "evaluate"
  /\ call.done
  /\ call.ret[1].decision["foo"] = "stop_fail"
  /\ call.ret[2].decision["foo"] = "stop_fail"
  /\ call.arg.st.containers["foo"] > 0
  /\ call.arg.st.containers["foo"] < call.arg.t
  /\ call.ret[2].st.containers["foo"] = call.arg.st.containers["foo"]
  /\ call.ret[2].st.running_since["foo"] # 0

\* C28: in every run (Threshold > 0), a sandbox whose ledger, after the
\* log ingestion of that run, holds HTTP activity newer than
\* now - Threshold is not handed to stop_container, whatever its start and
\* creation times.
C28_RecentHttpNeverStopped ==
  [][\A n \in Names :
       (EvalStepOf(n) /\ now - state.containers[n] < Threshold)
         => decision'[n] \notin Stops]_vars

\* C28 witness: foo has no connection and was started a threshold or more
\* ago, a request logged within the threshold is in the ledger, and the
\* run kept foo.
C28_Witness ==
  /\ decision["foo"] = "keep"
  /\ ~HasActivePort("foo")
  /\ docker["foo"].started # 0
  /\ now - docker["foo"].started >= Threshold
  /\ now - docker["foo"].created >= Threshold
  /\ state.running_since["foo"] = docker["foo"].started
  /\ \E i \in 1..Len(logFile.lines) :
       logFile.lines[i].ts = state.containers["foo"]
  /\ now - state.containers["foo"] < Threshold

\* a run has evaluated foo and kept it while the clock of the model still
\* has a threshold to go
KeptInTime ==
  /\ pc = "evaluated"
  /\ decision["foo"] = "keep"
  /\ now + Threshold <= MaxTime

\* C29: with the watcher invoked again and again, time advancing and each
\* run saving its state, a sandbox that stays running and managed, gets no
\* further log lines, has no connection on a candidate port and whose stop
\* attempts succeed is eventually stopped by a run, also when the runtime
\* reports neither a start time nor a creation time for it.
C29_QuietSandboxStopped ==
  KeptInTime ~> (decision["foo"] = "stop_ok")

\* C29 witness: the runtime reported neither start nor creation time for
\* foo, no request was ever logged, an earlier run kept foo and recorded
\* running_since, and this run stopped it.
C29_Witness ==
  /\ docker["foo"].started = 0
  /\ docker["foo"].created = 0
  /\ logFile.lines = <<>>
  /\ Persisted.running_since["foo"] # 0
  /\ decision["foo"] = "stop_ok"

\* C30: reading lines again that were already ingested leaves containers
\* as the first ingestion left it, or as a stop or the active-connection
\* branch stamped it afterwards: the second reading changes nothing and
\* lowers nothing.  (A run that aborted before save_state is followed by a
\* run that repeats the first reading on the same ledger.)
C30_ReIngestChangesNothing ==
  (call.fn = "reingest" /\ call.done)
    => /\ call.ret[2].log.pos = Len(call.arg.lines)
       /\ call.ret[2].containers =
            Stamped(call.ret[1].containers, call.arg.stamp)

\* C30 witness: the first reading raised foo's entry to a request's time,
\* a later run stamped foo with its now, and the full second reading of
\* the same lines left the stamp in place.
C30_Witness ==
  /\ call.fn = "reingest"
  /\ call.done
  /\ call.ret[1].containers["foo"] > call.arg.containers["foo"]
  /\ call.arg.stamp > call.ret[1].containers["foo"]
  /\ call.ret[1].log.inode # call.ret[2].log.inode
  /\ call.ret[1].log.pos = Len(call.arg.lines)
  /\ call.ret[2].containers["foo"] = call.arg.stamp

\* ------------------------------------------------------------- overlap
\* C31 (as claimed): while two invocations overlap on the state file, the
\* file at the state path is at every moment what it was before or the
\* complete ledger of one of the invocations, and save_state of neither
\* invocation raises.
C31_OverlapSafe ==
  call.fn = "overlap"
    => /\ \/ disk = call.arg.old
          \/ \E i \in Invocations : disk = Full(call.arg.st[i])
       /\ \A i \in Invocations : call.ret[i].pc # "raised"
====
